---- MODULE Spec2Model ----
(***************************************************************************)
(* Emirates ID extractor: the extraction pipeline of                       *)
(* src/emirates_id_extractor.py (EmiratesIDExtractor) as driven by         *)
(* src/app.py.                                                             *)
(*                                                                         *)
(* Python strings are sequences of one-character strings, so that upper(), *)
(* strip(), the `in` operator, json.loads and the regular expressions of   *)
(* extract_using_regex are computed character by character.  The input     *)
(* alphabet is ASCII without the backslash and without control characters  *)
(* other than the newline.                                                 *)
(***************************************************************************)
EXTENDS Integers, Sequences, FiniteSets, TLC

(***************************************************************************)
(* Characters and Python string primitives                                 *)
(***************************************************************************)
Lower == <<"a","b","c","d","e","f","g","h","i","j","k","l","m","n","o","p","q","r","s","t","u","v","w","x","y","z">>
AZ == <<"A","B","C","D","E","F","G","H","I","J","K","L","M","N","O","P","Q","R","S","T","U","V","W","X","Y","Z">>
Digits == {"0","1","2","3","4","5","6","7","8","9"}
LowerSet == {Lower[k] : k \in 1..26}
AZSet == {AZ[k] : k \in 1..26}

\* str.upper() on one character: a-z map to A-Z, everything else is kept.
UpperChar(c) ==
  IF c \in LowerSet THEN AZ[CHOOSE k \in 1..26 : Lower[k] = c] ELSE c

\* str.upper()
upper(s) == [k \in 1..Len(s) |-> UpperChar(s[k])]

\* Python's str whitespace (str.strip(), regex \s, json's whitespace is a subset).
IsSpace(c) == c \in {" ", "\n", "\t", "\r"}
IsDigit(c) == c \in Digits
\* regex \w
IsWord(c) == c \in LowerSet \/ c \in AZSet \/ c \in Digits \/ c = "_"

Min(S) == CHOOSE x \in S : \A y \in S : x <= y
Max(S) == CHOOSE x \in S : \A y \in S : x >= y

\* str.strip(): drop leading and trailing whitespace.
strip(s) ==
  LET keep == {k \in 1..Len(s) : ~IsSpace(s[k])}
  IN  IF keep = {} THEN << >> ELSE SubSeq(s, Min(keep), Max(keep))

\* text[pos:].startswith(lit), pos 1-based.
StartsAt(text, pos, lit) ==
  /\ pos >= 1
  /\ pos + Len(lit) - 1 <= Len(text)
  /\ \A k \in 1..Len(lit) : text[pos + k - 1] = lit[k]

\* Python's `sub in text` on strings: substring containment.
Contains(text, sub) == \E p \in 1..(Len(text) + 1) : StartsAt(text, p, sub)

(***************************************************************************)
(* Python values as json.loads produces them                               *)
(***************************************************************************)
PyNone == [t |-> "None"]
PyStr(s) == [t |-> "str", s |-> s]
PyNum(s) == [t |-> "number", s |-> s]
PyBool(s) == [t |-> "bool", s |-> s]
PyList(items) == [t |-> "list", items |-> items]
PyDict(d) == [t |-> "dict", d |-> d]
EmptyDict == [k \in {} |-> PyNone]

(***************************************************************************)
(* json.loads (CPython json.decoder / json.scanner), strict mode           *)
(***************************************************************************)
JsonFail == [ok |-> FALSE, val |-> PyNone, pos |-> 0]
JsonOk(v, p) == [ok |-> TRUE, val |-> v, pos |-> p]

\* json.decoder.WHITESPACE.match(s, pos).end(): skip " \t\n\r"; the index
\* of the first character at or after pos that is not JSON whitespace.
SkipWs(text, pos) ==
  Min({q \in pos..(Len(text) + 1) :
         q = Len(text) + 1 \/ text[q] \notin {" ", "\t", "\n", "\r"}})

\* py_scanstring: pos is the index after the opening quote; the string ends
\* at the next quote (the alphabet has no backslash).  A control character
\* inside the string is an error in strict mode.
ScanString(text, pos) ==
  LET quotes == {q \in pos..Len(text) : text[q] = "\""}
  IN  IF quotes = {} THEN JsonFail
      ELSE IF \E k \in pos..(Min(quotes) - 1) : text[k] \in {"\n", "\t", "\r"}
      THEN JsonFail
      ELSE JsonOk(PyStr(SubSeq(text, pos, Min(quotes) - 1)), Min(quotes) + 1)

\* \d* from pos: the index after the run of digits.
DigitsEnd(text, pos) ==
  Min({q \in pos..(Len(text) + 1) : q = Len(text) + 1 \/ ~IsDigit(text[q])})

\* json.scanner.NUMBER_RE: (-?(?:0|[1-9]\d*))(\.\d+)?([eE][-+]?\d+)?
\* Returns the index after the number, or 0 when no number starts at pos.
NumberEnd(text, pos) ==
  LET p1 == IF pos <= Len(text) /\ text[pos] = "-" THEN pos + 1 ELSE pos
      intEnd == IF p1 > Len(text) \/ ~IsDigit(text[p1]) THEN 0
                ELSE IF text[p1] = "0" THEN p1 + 1
                ELSE DigitsEnd(text, p1)
      fracEnd == IF intEnd # 0 /\ intEnd + 1 <= Len(text) /\ text[intEnd] = "."
                    /\ IsDigit(text[intEnd + 1])
                 THEN DigitsEnd(text, intEnd + 1) ELSE intEnd
      sgn == IF fracEnd # 0 /\ fracEnd + 1 <= Len(text) /\ text[fracEnd + 1] \in {"-", "+"}
             THEN fracEnd + 2 ELSE fracEnd + 1
      expEnd == IF fracEnd # 0 /\ fracEnd <= Len(text) /\ text[fracEnd] \in {"e", "E"}
                   /\ sgn <= Len(text) /\ IsDigit(text[sgn])
                THEN DigitsEnd(text, sgn) ELSE fracEnd
  IN  expEnd

RECURSIVE ScanOnce(_, _), JSONObject(_, _, _), JSONArray(_, _, _)
\* json.scanner.py_make_scanner._scan_once
ScanOnce(text, pos) ==
  IF pos > Len(text) THEN JsonFail
  ELSE LET c == text[pos] IN
    IF c = "\"" THEN ScanString(text, pos + 1)
    ELSE IF c = "{" THEN
      LET q == SkipWs(text, pos + 1) IN
        IF q <= Len(text) /\ text[q] = "}" THEN JsonOk(PyDict(EmptyDict), q + 1)
        ELSE JSONObject(text, q, EmptyDict)
    ELSE IF c = "[" THEN
      LET q == SkipWs(text, pos + 1) IN
        IF q <= Len(text) /\ text[q] = "]" THEN JsonOk(PyList(<< >>), q + 1)
        ELSE JSONArray(text, q, << >>)
    ELSE IF StartsAt(text, pos, <<"n","u","l","l">>) THEN JsonOk(PyNone, pos + 4)
    ELSE IF StartsAt(text, pos, <<"t","r","u","e">>) THEN JsonOk(PyBool(<<"t","r","u","e">>), pos + 4)
    ELSE IF StartsAt(text, pos, <<"f","a","l","s","e">>) THEN JsonOk(PyBool(<<"f","a","l","s","e">>), pos + 5)
    ELSE IF NumberEnd(text, pos) # 0
      THEN JsonOk(PyNum(SubSeq(text, pos, NumberEnd(text, pos) - 1)), NumberEnd(text, pos))
    ELSE IF StartsAt(text, pos, <<"N","a","N">>) THEN JsonOk(PyNum(<<"N","a","N">>), pos + 3)
    ELSE IF StartsAt(text, pos, <<"I","n","f","i","n","i","t","y">>) THEN JsonOk(PyNum(<<"I","n","f","i","n","i","t","y">>), pos + 8)
    ELSE IF StartsAt(text, pos, <<"-","I","n","f","i","n","i","t","y">>) THEN JsonOk(PyNum(<<"-","I","n","f","i","n","i","t","y">>), pos + 9)
    ELSE JsonFail

\* json.decoder.JSONObject, from a member's opening quote; a repeated key
\* keeps its last value, as dict() does.
JSONObject(text, pos, acc) ==
  IF pos > Len(text) \/ text[pos] # "\"" THEN JsonFail
  ELSE LET key == ScanString(text, pos + 1) IN
    IF ~key.ok THEN JsonFail
    ELSE LET colon == SkipWs(text, key.pos) IN
      IF colon > Len(text) \/ text[colon] # ":" THEN JsonFail
      ELSE LET value == ScanOnce(text, SkipWs(text, colon + 1)) IN
        IF ~value.ok THEN JsonFail
        ELSE LET acc2 == [k \in DOMAIN acc \cup {key.val.s} |->
                            IF k = key.val.s THEN value.val ELSE acc[k]]
                 nxt == SkipWs(text, value.pos)
             IN IF nxt > Len(text) THEN JsonFail
                ELSE IF text[nxt] = "}" THEN JsonOk(PyDict(acc2), nxt + 1)
                ELSE IF text[nxt] = "," THEN JSONObject(text, SkipWs(text, nxt + 1), acc2)
                ELSE JsonFail

\* json.decoder.JSONArray, from an element's first character.
JSONArray(text, pos, acc) ==
  LET value == ScanOnce(text, pos) IN
    IF ~value.ok THEN JsonFail
    ELSE LET nxt == SkipWs(text, value.pos) IN
      IF nxt > Len(text) THEN JsonFail
      ELSE IF text[nxt] = "]" THEN JsonOk(PyList(Append(acc, value.val)), nxt + 1)
      ELSE IF text[nxt] = "," THEN JSONArray(text, SkipWs(text, nxt + 1), Append(acc, value.val))
      ELSE JsonFail

\* json.loads(s): decode one value, allow surrounding whitespace, and raise
\* JSONDecodeError (ok = FALSE) on anything else, trailing data included.
json_loads(s) ==
  LET r == ScanOnce(s, SkipWs(s, 1)) IN
    IF r.ok /\ SkipWs(s, r.pos) = Len(s) + 1 THEN r ELSE JsonFail

(***************************************************************************)
(* The field schema and extract_using_regex                                *)
(***************************************************************************)
k_name == <<"n","a","m","e">>
k_uid_no == <<"u","i","d","_","n","o">>
k_passport_no == <<"p","a","s","s","p","o","r","t","_","n","o">>
k_profession == <<"p","r","o","f","e","s","s","i","o","n">>
k_sponsor == <<"s","p","o","n","s","o","r">>
k_place_of_issue == <<"p","l","a","c","e","_","o","f","_","i","s","s","u","e">>
k_issue_date == <<"i","s","s","u","e","_","d","a","t","e">>
k_expiry_date == <<"e","x","p","i","r","y","_","d","a","t","e">>
SchemaKeys ==
  {k_name, k_uid_no, k_passport_no, k_profession, k_sponsor, k_place_of_issue,
   k_issue_date, k_expiry_date}
NotFound == <<"N","o","t"," ","F","o","u","n","d">>

\* The alternatives of the place-of-issue pattern, in the pattern's order.
Cities ==
  << <<"D","u","b","a","i">>, <<"A","b","u"," ","D","h","a","b","i">>, <<"S","h","a","r","j","a","h">>, <<"A","j","m","a","n">>, <<"U","m","m"," ","A","l"," ","Q","u","w","a","i","n">>,
     <<"R","a","s"," ","A","l"," ","K","h","a","i","m","a","h">>, <<"F","u","j","a","i","r","a","h">> >>

\* re.IGNORECASE comparison of a literal at pos.
StartsAtIgnoreCase(text, pos, lit) ==
  /\ pos + Len(lit) - 1 <= Len(text)
  /\ \A k \in 1..Len(lit) : UpperChar(text[pos + k - 1]) = UpperChar(lit[k])

NoMatch == [found |-> FALSE, s |-> << >>, end |-> 0]
Match(text, from, to) == [found |-> TRUE, s |-> SubSeq(text, from, to), end |-> to]

\* re.search(r'(Dubai|Abu Dhabi|...|Fujairah)', text, re.IGNORECASE):
\* leftmost position, then the first alternative that matches there.
place_match(text) ==
  LET at == {p \in 1..Len(text) :
               \E c \in 1..Len(Cities) : StartsAtIgnoreCase(text, p, Cities[c])}
  IN  IF at = {} THEN NoMatch
      ELSE LET p == Min(at)
               c == Min({x \in 1..Len(Cities) : StartsAtIgnoreCase(text, p, Cities[x])})
           IN Match(text, p, p + Len(Cities[c]) - 1)

\* regex \b at the gap before index pos (1..Len+1).
WordBoundary(text, pos) ==
  LET before == pos > 1 /\ IsWord(text[pos - 1])
      after == pos <= Len(text) /\ IsWord(text[pos])
  IN  before # after

AllDigits(text, from, to) ==
  /\ to <= Len(text)
  /\ \A k \in from..to : IsDigit(text[k])

\* \b\d{8,9}\b at pos: the greedy {8,9} tries nine digits, then eight.
UidAt(text, pos, n) ==
  /\ WordBoundary(text, pos)
  /\ AllDigits(text, pos, pos + n - 1)
  /\ WordBoundary(text, pos + n)

\* re.search(r'\b\d{8,9}\b', text)
uid_match(text) ==
  LET at == {p \in 1..Len(text) : UidAt(text, p, 9) \/ UidAt(text, p, 8)}
  IN  IF at = {} THEN NoMatch
      ELSE LET p == Min(at)
           IN IF UidAt(text, p, 9) THEN Match(text, p, p + 8) ELSE Match(text, p, p + 7)

PassportAt(text, pos) ==
  /\ pos <= Len(text)
  /\ text[pos] = "Z"
  /\ AllDigits(text, pos + 1, pos + 7)

\* re.search(r'Z\d{7}', text)
passport_match(text) ==
  LET at == {p \in 1..Len(text) : PassportAt(text, p)}
  IN  IF at = {} THEN NoMatch ELSE Match(text, Min(at), Min(at) + 7)

\* \d{4}/\d{2}/\d{2} at pos
DateAt(text, pos) ==
  /\ pos + 9 <= Len(text)
  /\ AllDigits(text, pos, pos + 3)
  /\ text[pos + 4] = "/"
  /\ AllDigits(text, pos + 5, pos + 6)
  /\ text[pos + 7] = "/"
  /\ AllDigits(text, pos + 8, pos + 9)

\* re.findall(r'\d{4}/\d{2}/\d{2}', text): the non-overlapping matches, left
\* to right, each search resuming after the previous match.
RECURSIVE date_matches_from(_, _)
date_matches_from(text, pos) ==
  LET at == {p \in pos..Len(text) : DateAt(text, p)}
  IN  IF at = {} THEN << >>
      ELSE <<SubSeq(text, Min(at), Min(at) + 9)>> \o date_matches_from(text, Min(at) + 10)

date_matches(text) == date_matches_from(text, 1)

IsCap(text, pos) == pos >= 1 /\ pos <= Len(text) /\ text[pos] \in AZSet
IsSpaceAt(text, pos) == pos >= 1 /\ pos <= Len(text) /\ IsSpace(text[pos])

\* Index of the last character of the run of [A-Z] (of \s) that starts at pos.
CapsEnd(text, pos) ==
  Min({q \in pos..Len(text) : ~IsCap(text, q + 1)})
SpaceEnd(text, pos) ==
  Min({q \in pos..Len(text) : ~IsSpaceAt(text, q + 1)})

\* ([A-Z]+\s+){2,}[A-Z]+ tried at pos (an upper-case letter).  Every group
\* must take its whole run of capitals (whitespace has to follow) and its whole
\* run of whitespace (a capital has to follow), so the greedy match is the
\* longest chain of capital words separated by whitespace; it needs two groups
\* and the final word, three words in all.  words counts the words so far.
RECURSIVE NameChain(_, _, _)
NameChain(text, pos, words) ==
  LET e == CapsEnd(text, pos)
      s == SpaceEnd(text, e + 1)
  IN  IF IsSpaceAt(text, e + 1) /\ IsCap(text, s + 1)
      THEN NameChain(text, s + 1, words + 1)
      ELSE [end |-> e, words |-> words + 1]

NameAt(text, pos) == IsCap(text, pos) /\ NameChain(text, pos, 0).words >= 3

\* re.search(r'([A-Z]+\s+){2,}[A-Z]+', text)
name_match(text) ==
  LET at == {p \in 1..Len(text) : NameAt(text, p)}
  IN  IF at = {} THEN NoMatch
      ELSE Match(text, Min(at), NameChain(text, Min(at), 0).end)

\* Ends of 'SERVICES CO.' reachable from a 'MACKSOFY' at pos through '.*':
\* '.' matches anything but a newline.
SponsorEnds(text, pos) ==
  {q \in (pos + 8)..Len(text) :
     /\ StartsAt(text, q, <<"S","E","R","V","I","C","E","S"," ","C","O",".">>)
     /\ \A k \in (pos + 8)..(q - 1) : text[k] # "\n"}

\* re.search(r'MACKSOFY.*SERVICES CO\.', text): leftmost start, and the
\* greedy '.*' ends the match at the last 'SERVICES CO.' of the line.
sponsor_match(text) ==
  LET at == {p \in 1..Len(text) :
               StartsAt(text, p, <<"M","A","C","K","S","O","F","Y">>) /\ SponsorEnds(text, p) # {}}
  IN  IF at = {} THEN NoMatch
      ELSE Match(text, Min(at), Max(SponsorEnds(text, Min(at))) + 11)

\* Mutant of DefaultRecord: the sponsor default is left out of the literal.
DefaultRecordWithoutSponsor ==
  [k \in SchemaKeys \ {k_sponsor} |-> PyStr(NotFound)]

\* The dict literal of lines 131-140.
DefaultRecord == [k \in SchemaKeys |-> PyStr(NotFound)]

\* d[key] = value on a dict of str values.
SetItem(d, key, value) ==
  [k \in DOMAIN d \cup {key} |-> IF k = key THEN value ELSE d[k]]

\* extract_using_regex(text): the seven rules, each independent of the others.
extract_using_regex(text) ==
  LET d0 == DefaultRecord
      d1 == IF place_match(text).found
            THEN SetItem(d0, k_place_of_issue, PyStr(place_match(text).s)) ELSE d0
      d2 == IF uid_match(text).found
            THEN SetItem(d1, k_uid_no, PyStr(uid_match(text).s)) ELSE d1
      d3 == IF passport_match(text).found
            THEN SetItem(d2, k_passport_no, PyStr(passport_match(text).s)) ELSE d2
      dm == date_matches(text)
      d4 == IF Len(dm) >= 2
            THEN SetItem(SetItem(d3, k_issue_date, PyStr(dm[1])), k_expiry_date, PyStr(dm[2]))
            ELSE d3
      d5 == IF name_match(text).found
            THEN SetItem(d4, k_name, PyStr(name_match(text).s)) ELSE d4
      d6 == IF Contains(text, <<"P","A","R","T","N","E","R">>) \/ Contains(text, <<"P","a","r","t","n","e","r">>)
            THEN SetItem(d5, k_profession, PyStr(<<"P","a","r","t","n","e","r">>)) ELSE d5
      d7 == IF sponsor_match(text).found
            THEN SetItem(d6, k_sponsor, PyStr(sponsor_match(text).s)) ELSE d6
  IN  PyDict(d7)

(***************************************************************************)
(* process_and_query: the code after chain.run returned `result`           *)
(***************************************************************************)
Returned(v, usedRegex) == [raised |-> "", value |-> v, regex |-> usedRegex]
Raised(e) == [raised |-> e, value |-> PyNone, regex |-> FALSE]

\* `key in extracted_info` (line 108) by the type json.loads returned:
\* dict: key lookup; list: element equality; str: substring; anything else
\* has no __contains__ and raises TypeError.
HasIn(v, key) ==
  CASE v.t = "dict" -> key \in DOMAIN v.d
    [] v.t = "list" -> \E k \in 1..Len(v.items) : v.items[k] = PyStr(key)
    [] v.t = "str" -> Contains(v.s, key)
    [] OTHER -> FALSE
SupportsIn(v) == v.t \in {"dict", "list", "str"}

\* Mutant of swap_rule_1: the trigger tests the sponsor value.
swap_rule_1_tests_sponsor(d, prof_value, sponsor_value) ==
  IF Contains(sponsor_value, <<"S","E","R","V","I","C","E","S"," ","C","O">>) \/ Contains(sponsor_value, <<"D","A","T","A"," ","M","A","N","A","G","E","M","E","N","T">>)
  THEN SetItem(SetItem(d, k_profession, PyStr(sponsor_value)), k_sponsor, PyStr(prof_value))
  ELSE d

\* Lines 113-115: the first rule assigns the upper-cased sponsor to
\* profession and the upper-cased profession to sponsor.
swap_rule_1(d, prof_value, sponsor_value) ==
  IF Contains(prof_value, <<"S","E","R","V","I","C","E","S"," ","C","O">>) \/ Contains(prof_value, <<"D","A","T","A"," ","M","A","N","A","G","E","M","E","N","T">>)
  THEN SetItem(SetItem(d, k_profession, PyStr(sponsor_value)), k_sponsor, PyStr(prof_value))
  ELSE d

\* Mutant of swap_rule_2: the rule exchanges the record's current values, so
\* that it undoes a swap the first rule made.
swap_rule_2_exchanges(d, prof_value, sponsor_value) ==
  IF strip(sponsor_value) \in {<<"P","A","R","T","N","E","R">>, <<"P","A","R","T","N","E","R"," ","(","F","E","M","A","L","E",")">>}
  THEN SetItem(SetItem(d, k_profession, d[k_sponsor]), k_sponsor, d[k_profession])
  ELSE d

\* Lines 118-119: the second rule makes the same assignment, from the values
\* read at lines 109-110 (not from the record as the first rule left it).
swap_rule_2(d, prof_value, sponsor_value) ==
  IF strip(sponsor_value) \in {<<"P","A","R","T","N","E","R">>, <<"P","A","R","T","N","E","R"," ","(","F","E","M","A","L","E",")">>}
  THEN SetItem(SetItem(d, k_profession, PyStr(sponsor_value)), k_sponsor, PyStr(prof_value))
  ELSE d

\* Lines 108-119 on the value json.loads returned.
post_process(info) ==
  IF ~SupportsIn(info) THEN Raised("TypeError")
  ELSE IF ~(HasIn(info, k_profession) /\ HasIn(info, k_sponsor)) THEN Returned(info, FALSE)
  ELSE IF info.t # "dict" THEN Raised("TypeError")
  ELSE IF info.d[k_profession].t # "str" \/ info.d[k_sponsor].t # "str"
       THEN Raised("AttributeError")
  ELSE LET prof_value == upper(info.d[k_profession].s)
           sponsor_value == upper(info.d[k_sponsor].s)
       IN Returned(PyDict(swap_rule_2(swap_rule_1(info.d, prof_value, sponsor_value),
                                      prof_value, sponsor_value)), FALSE)

\* Mutant of on_decode_error: the fallback reads the OCR text.
on_decode_error_ocr_text(result, text) == Returned(extract_using_regex(text), TRUE)

\* Lines 121-122: the handler of json.JSONDecodeError.
on_decode_error(result, text) == Returned(extract_using_regex(result), TRUE)

\* Lines 104-124: parse the model's response, post-process or fall back.
parse_result(result, text) ==
  IF json_loads(result).ok THEN post_process(json_loads(result).val)
  ELSE on_decode_error(result, text)

\* Mutant of on_model_failure: a failed model call degrades to the regex path.
on_model_failure_degrades(text) == Returned(extract_using_regex(text), TRUE)

\* Lines 126-127 for a failure of chain.run (or of the index built before it).
on_model_failure(text) == Raised("ModelError")

(***************************************************************************)
(* Inputs: image files, what Textract reads in them, what the model says   *)
(***************************************************************************)
Macksofy == <<"M","A","C","K","S","O","F","Y"," ","D","A","T","A"," ","M","A","N","A","G","E","M","E","N","T"," ","&"," ","C","Y","B","E","R"," ","S","E","C","U","R","I","T","Y"," ","S","E","R","V","I","C","E","S"," ","C","O",".">>

\* '"' + s + '"'
Quoted(s) == <<"\"">> \o s \o <<"\"">>
\* '"key": value'
Member(key, valueText) == Quoted(key) \o <<":"," ">> \o valueText

RECURSIVE JoinWith(_, _)
\* sep.join(parts)
JoinWith(parts, sep) ==
  IF Len(parts) = 0 THEN << >>
  ELSE IF Len(parts) = 1 THEN parts[1]
  ELSE parts[1] \o sep \o JoinWith(Tail(parts), sep)

\* A JSON object text with the given members.
ObjectText(members) == <<"{">> \o JoinWith(members, <<","," ">>) \o <<"}">>

\* The six fields the disambiguation does not touch, as the model reports them.
OtherMembers ==
  << Member(k_name, Quoted(<<"J","O","H","N"," ","A"," ","S","M","I","T","H">>)),
     Member(k_uid_no, Quoted(<<"1","2","3","4","5","6","7","8","9">>)),
     Member(k_passport_no, Quoted(<<"Z","1","2","3","4","5","6","7">>)),
     Member(k_place_of_issue, Quoted(<<"D","u","b","a","i">>)),
     Member(k_issue_date, Quoted(<<"2","0","2","0","/","0","1","/","1","5">>)),
     Member(k_expiry_date, Quoted(<<"N","o","t"," ","F","o","u","n","d">>)) >>

\* Value texts the model may give for profession and for sponsor.
ProfessionTexts ==
  { Quoted(<<"P","a","r","t","n","e","r">>), Quoted(Macksofy), Quoted(<<"A","c","c","o","u","n","t","a","n","t">>),
    Quoted(<<"A","c","m","e"," ","C","l","e","a","n","i","n","g"," ","S","e","r","v","i","c","e","s"," ","C","o">>), Quoted(<<"N","o","t"," ","F","o","u","n","d">>), <<"n","u","l","l">> }
SponsorTexts ==
  { Quoted(<<"P","a","r","t","n","e","r">>), Quoted(<<" ","p","a","r","t","n","e","r"," ","(","f","e","m","a","l","e",")"," ">>), Quoted(<<"A","B","C"," ","T","r","a","d","i","n","g"," ","L","L","C">>),
    Quoted(Macksofy), Quoted(<<"G","u","l","f"," ","D","a","t","a"," ","M","a","n","a","g","e","m","e","n","t"," ","F","Z","E">>), <<"n","u","l","l">> }

\* Responses with all eight keys.
FullObjects ==
  { ObjectText(OtherMembers \o <<Member(k_profession, p), Member(k_sponsor, s)>>) :
      p \in ProfessionTexts, s \in SponsorTexts }

\* Valid JSON that is not a full record.
OddJson ==
  { <<"{","}">>,
    <<"n","u","l","l">>,
    <<"4","2">>,
    <<"[","]">>,
    <<"[","\"","p","r","o","f","e","s","s","i","o","n","\"",","," ","\"","s","p","o","n","s","o","r","\"","]">>,
    <<"\"","p","r","o","f","e","s","s","i","o","n"," ","a","n","d"," ","s","p","o","n","s","o","r"," ","a","r","e"," ","n","o","t"," ","s","h","o","w","n","\"">>,
    <<"\"","n","o"," ","f","i","e","l","d","s"," ","f","o","u","n","d","\"">>,
    ObjectText(<<Member(k_name, Quoted(<<"J","O","H","N"," ","A"," ","S","M","I","T","H">>))>>),
    ObjectText(<<Member(k_name, Quoted(<<>>))>>),
    ObjectText(<<Member(k_profession, Quoted(<<"A","c","m","e"," ","C","l","e","a","n","i","n","g"," ","S","e","r","v","i","c","e","s"," ","C","o">>))>>),
    ObjectText(<<Member(k_profession, <<"7">>), Member(k_sponsor, Quoted(<<"P","a","r","t","n","e","r">>))>>),
    <<" ","{","\"","p","r","o","f","e","s","s","i","o","n","\""," ",":"," ","\"","P","a","r","t","n","e","r","\""," ",",","\n"," ","\"","s","p","o","n","s","o","r","\"",":","\"","P","a","r","t","n","e","r","\"",","," ","\"","s","p","o","n","s","o","r","\"",":"," ","\"","A","B","C"," ","T","r","a","d","i","n","g"," ","L","L","C","\"","}","\n">> }

\* Responses json.loads rejects.
NotJson ==
  { <<>>,
    <<"I"," ","c","o","u","l","d"," ","n","o","t"," ","f","i","n","d"," ","a","n","y"," ","d","e","t","a","i","l","s",".">>,
    <<"N","a","m","e",":"," ","J","O","H","N"," ","A"," ","S","M","I","T","H",","," ","P","r","o","f","e","s","s","i","o","n",":"," ","P","a","r","t","n","e","r",","," ","S","p","o","n","s","o","r",":"," ">> \o Macksofy
      \o <<" ","I","s","s","u","e","d"," ","i","n"," ","d","u","b","a","i"," ","2","0","2","0","/","0","1","/","1","5"," ","-"," ","2","0","3","0","/","0","1","/","1","4",","," ","U","I","D"," ","1","2","3","4","5","6","7","8","9",","," ","P","a","s","s","p","o","r","t"," ","Z","1","2","3","4","5","6","7">>,
    <<"H","e","r","e"," ","i","s"," ","t","h","e"," ","J","S","O","N",":"," ">> \o ObjectText(OtherMembers),
    <<"{","\"","n","a","m","e","\"",":"," ","\"","J","O","H","N"," ","A"," ","S","M","I","T","H","\"",","," ","\"","p","r","o","f","e","s","s","i","o","n","\"",":"," ","\"","P","a","r","t","n","e","r","\"",",","}">>,
    <<"{","\"","n","a","m","e","\"",":"," ","\"","J","O","H","N"," ","A"," ","S","M","I","T","H","\"",","," ","\"","s","p","o","n","s","o","r","\"",":"," ","\"","M","A","C","K","S","O","F","Y"," ","D","A","T","A","\n","S","E","R","V","I","C","E","S"," ","C","O",".","\"","}">>,
    <<"{","\"","n","a","m","e","\"",":"," ","\"","J","O","H","N"," ","A"," ","S","M">> }

\* The image files: each is one card, and detect_document_text reports the
\* same blocks for the same image.
Cards == {"card_full", "card_partner", "card_short", "card_blank"}
\* The cards two concurrent invocations are run on.
ConcCards == {"card_partner", "card_short", "card_blank"}

Block(type, text) == [BlockType |-> type, Text |-> text]

\* response['Blocks'] of detect_document_text for an image.
Blocks(card) ==
  CASE card = "card_full" ->
         << Block("PAGE", << >>),
            Block("LINE", <<"N","a","m","e",":"," ","J","O","H","N"," ","A"," ","S","M","I","T","H">>),
            Block("WORD", <<"N","a","m","e",":">>),
            Block("LINE", <<"P","r","o","f","e","s","s","i","o","n",":"," ","P","a","r","t","n","e","r">>),
            Block("LINE", <<"S","p","o","n","s","o","r",":"," ">> \o Macksofy),
            Block("LINE", <<"D","u","b","a","i"," ","2","0","2","0","/","0","1","/","1","5"," ","2","0","3","0","/","0","1","/","1","4">>) >>
    [] card = "card_partner" ->
         << Block("PAGE", << >>),
            Block("LINE", <<"A","H","M","E","D"," ","B"," ","K","H","A","N">>),
            Block("LINE", <<"A","c","c","o","u","n","t","a","n","t">>),
            Block("WORD", <<"A","c","c","o","u","n","t","a","n","t">>) >>
    [] card = "card_short" ->
         << Block("PAGE", << >>),
            Block("LINE", <<"P","A","R","T","N","E","R">>),
            Block("LINE", <<"Z","7","6","5","4","3","2","1">>) >>
    [] OTHER -> << Block("PAGE", << >>) >>

\* What the language model may answer when shown the text of a card.
Answers(card) ==
  CASE card = "card_full" -> FullObjects \cup OddJson \cup NotJson
    [] card = "card_partner" ->
         { ObjectText(<<Member(k_name, Quoted(<<"A","H","M","E","D"," ","B"," ","K","H","A","N">>)),
                        Member(k_profession, Quoted(<<"K","h","a","n"," ","T","e","c","h","n","i","c","a","l"," ","S","e","r","v","i","c","e","s"," ","C","o">>)),
                        Member(k_sponsor, Quoted(<<"A","c","c","o","u","n","t","a","n","t">>))>>),
           <<"[","\"","A","H","M","E","D"," ","B"," ","K","H","A","N","\"",","," ","\"","A","c","c","o","u","n","t","a","n","t","\"","]">>,
           <<"n","u","l","l">>,
           <<"T","h","e"," ","c","a","r","d"," ","s","h","o","w","s"," ","A","H","M","E","D"," ","B"," ","K","H","A","N",","," ","A","c","c","o","u","n","t","a","n","t",".">> }
    [] card = "card_short" ->
         { ObjectText(<<Member(k_profession, Quoted(<<"N","o","t"," ","F","o","u","n","d">>)),
                        Member(k_sponsor, Quoted(<<"P","A","R","T","N","E","R">>))>>),
           <<"P","a","s","s","p","o","r","t"," ","Z","7","6","5","4","3","2","1",","," ","P","A","R","T","N","E","R">> }
    [] OTHER -> {<<>>, <<"{","}">>}

\* Local paths of the uploaded temporary files.
Paths == { <<"/","t","m","p","/","a","/","i","d",".","j","p","g">>, <<"/","t","m","p","/","b","/","i","d",".","j","p","g">>, <<"/","t","m","p","/","a","/","s","c","a","n",".","p","n","g">>, <<"i","d",".","j","p","g">> }

\* os.path.basename(path): what follows the last '/'.
basename(path) ==
  LET slashes == {k \in 1..Len(path) : path[k] = "/"}
  IN  IF slashes = {} THEN path ELSE SubSeq(path, Max(slashes) + 1, Len(path))

\* Line 185: f"emirates_ids/{os.path.basename(image_path)}"
s3_file_path(image_path) == <<"e","m","i","r","a","t","e","s","_","i","d","s","/">> \o basename(image_path)

Keys == {s3_file_path(p) : p \in Paths}

\* Lines 199-202: " ".join of the Text of the LINE blocks, in order.
RECURSIVE LineTexts(_)
LineTexts(blocks) ==
  IF Len(blocks) = 0 THEN << >>
  ELSE IF blocks[1].BlockType = "LINE" THEN <<blocks[1].Text>> \o LineTexts(Tail(blocks))
  ELSE LineTexts(Tail(blocks))

extracted_text_of(blocks) == JoinWith(LineTexts(blocks), <<" ">>)

(***************************************************************************)
(* State                                                                   *)
(***************************************************************************)
\* Invocations of extract_text_from_image on the one cached extractor.
Inv == {1, 2}

NoObject == "no object"
Unasked == [asked |-> FALSE, text |-> << >>]

VARIABLES
  pc,             \* where each invocation stands
  image_path,     \* its image_path argument
  image,          \* the card in the local file at image_path
  bucket,         \* the S3 bucket: key -> stored image, or NoObject
  stored,         \* upload_to_s3 returned for this invocation
  extracted_text, \* line 199
  llm_call,       \* "none", "ok" or "failed": how chain.run ended
  result,         \* line 101
  extracted_info, \* the value process_and_query returned
  regex_used,     \* extract_using_regex was called
  error,          \* the exception raised to the caller, "" if none
  llm,            \* what the temperature-0 model answers for a card's text, once asked
  rx_text,        \* the argument of a direct extract_using_regex call
  rx_out          \* the records successive calls on rx_text returned

vars ==
  <<pc, image_path, image, bucket, stored, extracted_text, llm_call, result,
    extracted_info, regex_used, error, llm, rx_text, rx_out>>

rx_vars == <<rx_text, rx_out>>

InitCommon ==
  /\ bucket = [k \in Keys |-> NoObject]
  /\ stored = [i \in Inv |-> FALSE]
  /\ extracted_text = [i \in Inv |-> << >>]
  /\ llm_call = [i \in Inv |-> "none"]
  /\ result = [i \in Inv |-> << >>]
  /\ extracted_info = [i \in Inv |-> PyNone]
  /\ regex_used = [i \in Inv |-> FALSE]
  /\ error = [i \in Inv |-> ""]
  /\ llm = [c \in Cards |-> Unasked]

\* One invocation at a time, as the app's button handler makes them.
Init ==
  /\ InitCommon
  /\ pc = [i \in Inv |-> IF i = 1 THEN "upload_to_s3" ELSE "off"]
  /\ image_path \in [Inv -> Paths]
  /\ image \in [Inv -> Cards]
  /\ image_path[2] = image_path[1] /\ image[2] = image[1]
  /\ rx_text = << >> /\ rx_out = << >>

\* Two invocations on the same extractor in concurrent sessions.
InitConc ==
  /\ InitCommon
  /\ pc = [i \in Inv |-> "upload_to_s3"]
  /\ image_path \in [Inv -> Paths]
  /\ image \in [Inv -> ConcCards]
  /\ rx_text = << >> /\ rx_out = << >>

(***************************************************************************)
(* extract_text_from_image, one action per call to a collaborator          *)
(***************************************************************************)
\* Lines 212-213 (and 48-49, 126-127): the exception reaches the caller.
Raise(i, e) ==
  /\ pc' = [pc EXCEPT ![i] = "raised"]
  /\ error' = [error EXCEPT ![i] = "Error processing Emirates ID: " \o e]

\* s3_client.upload_file(local_file_path, bucket_name, s3_file_path)
upload_file(b, key, content) == [b EXCEPT ![key] = content]

\* Mutant of delete_object: the whole prefix is emptied.
delete_object_prefix(b, key) == [k \in DOMAIN b |-> NoObject]

\* s3_client.delete_object(Bucket=bucket_name, Key=s3_file_path)
delete_object(b, key) == [b EXCEPT ![key] = NoObject]

\* Lines 185-186: upload_to_s3 stores the file, or raises.
upload_to_s3(i) ==
  /\ pc[i] = "upload_to_s3"
  /\ \/ /\ bucket' = upload_file(bucket, s3_file_path(image_path[i]), image[i])
        /\ stored' = [stored EXCEPT ![i] = TRUE]
        /\ pc' = [pc EXCEPT ![i] = "detect_document_text"]
        /\ UNCHANGED error
     \/ /\ Raise(i, "Error uploading to S3")
        /\ UNCHANGED <<bucket, stored>>
  /\ UNCHANGED <<image_path, image, extracted_text, llm_call, result,
                 extracted_info, regex_used, llm, rx_vars>>

\* Lines 189-202: Textract reads the object under the key and the LINE
\* blocks are joined; a missing object or a service error raises.
detect_document_text(i) ==
  /\ pc[i] = "detect_document_text"
  /\ \/ /\ bucket[s3_file_path(image_path[i])] # NoObject
        /\ extracted_text' =
             [extracted_text EXCEPT
                ![i] = extracted_text_of(Blocks(bucket[s3_file_path(image_path[i])]))]
        /\ pc' = [pc EXCEPT ![i] = "process_and_query"]
        /\ UNCHANGED error
     \/ /\ bucket[s3_file_path(image_path[i])] = NoObject
        /\ Raise(i, "InvalidS3ObjectException")
        /\ UNCHANGED extracted_text
     \/ /\ Raise(i, "Textract error")
        /\ UNCHANGED extracted_text
  /\ UNCHANGED <<image_path, image, bucket, stored, llm_call, result,
                 extracted_info, regex_used, llm, rx_vars>>

\* The card whose text the model is shown.
CardOf(text) == CHOOSE c \in Cards : extracted_text_of(Blocks(c)) = text

\* How process_and_query ends: it returns a value (line 124) or raises
\* (line 127).
Finish(i, outcome) ==
  IF outcome.raised = ""
  THEN /\ extracted_info' = [extracted_info EXCEPT ![i] = outcome.value]
       /\ regex_used' = [regex_used EXCEPT ![i] = outcome.regex]
       /\ pc' = [pc EXCEPT ![i] = "delete_object"]
       /\ UNCHANGED error
  ELSE /\ Raise(i, "Error in LLM processing: " \o outcome.raised)
       /\ UNCHANGED <<extracted_info, regex_used>>

\* Line 205, lines 51-127.
process_and_query(i) ==
  /\ pc[i] = "process_and_query"
  /\ LET text == extracted_text[i] IN
     \/ \* split_text('') is [], and FAISS.from_texts([]) raises
        /\ text = << >>
        /\ Finish(i, Raised("IndexError"))
        /\ UNCHANGED <<llm_call, result, llm>>
     \/ \* chain.run raises
        /\ text # << >>
        /\ llm_call' = [llm_call EXCEPT ![i] = "failed"]
        /\ Finish(i, on_model_failure(text))
        /\ UNCHANGED <<result, llm>>
     \/ \* chain.run returns the model's answer
        /\ text # << >>
        /\ \E r \in Answers(CardOf(text)) :
             /\ llm[CardOf(text)].asked => r = llm[CardOf(text)].text
             /\ llm' = [llm EXCEPT ![CardOf(text)] = [asked |-> TRUE, text |-> r]]
             /\ llm_call' = [llm_call EXCEPT ![i] = "ok"]
             /\ result' = [result EXCEPT ![i] = r]
             /\ Finish(i, parse_result(r, text))
  /\ UNCHANGED <<image_path, image, bucket, stored, extracted_text, rx_vars>>

\* Lines 208-210: delete the object and return the record; a failing
\* delete raises instead.
delete_and_return(i) ==
  /\ pc[i] = "delete_object"
  /\ \/ /\ bucket' = delete_object(bucket, s3_file_path(image_path[i]))
        /\ pc' = [pc EXCEPT ![i] = "returned"]
        /\ UNCHANGED error
     \/ /\ Raise(i, "S3 delete error")
        /\ UNCHANGED bucket
  /\ UNCHANGED <<image_path, image, stored, extracted_text, llm_call, result,
                 extracted_info, regex_used, llm, rx_vars>>

Next ==
  \E i \in Inv :
    \/ upload_to_s3(i)
    \/ detect_document_text(i)
    \/ process_and_query(i)
    \/ delete_and_return(i)

Spec == Init /\ [][Next]_vars

SpecConc == InitConc /\ [][Next]_vars

(***************************************************************************)
(* extract_using_regex called directly on bounded texts                    *)
(***************************************************************************)
\* Texts are concatenations of at most MaxFrags of these fragments.
MaxFrags == 2
\* How many times extract_using_regex is called on the same text.
MaxCalls == 2

Fragments ==
  { <<"Z","1","2","3","4","5","6","7">>, <<"1","2","3","4","5","6","7","8">>, <<"9">>, <<"2","0","2","0","/","0","1","/","1","5">>, <<"2","0","3","0","/","0","1","/","1","4">>, <<"D","u","b","a","i">>,
    <<"a","b","u"," ","D","H","A","B","I">>, <<"J","O","H","N"," ","A"," ","S","M","I","T","H">>, <<"A","B"," ","C","D">>, <<" ","E","F">>, <<"P","a","r","t","n","e","r">>, <<"P","A","R","T","N","E","R">>,
    <<"M","A","C","K","S","O","F","Y"," ","D","A","T","A">>, <<"S","E","R","V","I","C","E","S"," ","C","O",".">>, <<" ">>, <<"\n">>, <<"x">>, <<"_">> }

RECURSIVE TextsUpTo(_)
TextsUpTo(n) ==
  IF n = 0 THEN {<< >>}
  ELSE TextsUpTo(n - 1) \cup {t \o f : t \in TextsUpTo(n - 1), f \in Fragments}

InitRegex ==
  /\ InitCommon
  /\ pc = [i \in Inv |-> "off"]
  /\ image_path = [i \in Inv |-> <<"i","d",".","j","p","g">>]
  /\ image = [i \in Inv |-> "card_blank"]
  /\ rx_text \in TextsUpTo(MaxFrags)
  /\ rx_out = << >>

\* record = extractor.extract_using_regex(rx_text)
regex_call ==
  /\ Len(rx_out) < MaxCalls
  /\ rx_out' = Append(rx_out, extract_using_regex(rx_text))
  /\ UNCHANGED <<pc, image_path, image, bucket, stored, extracted_text, llm_call,
                 result, extracted_info, regex_used, error, llm, rx_text>>

NextRegex == regex_call

SpecRegex == InitRegex /\ [][NextRegex]_vars

(***************************************************************************)
(* Properties                                                              *)
(***************************************************************************)
Key(i) == s3_file_path(image_path[i])
Ended(i) == pc[i] \in {"returned", "raised"}
\* process_and_query returned a value to extract_text_from_image.
Processed(i) == llm_call[i] = "ok" /\ pc[i] \in {"delete_object", "returned"}
Parsed(i) == json_loads(result[i])
LLMError(i) ==
  error[i] \in {"Error processing Emirates ID: Error in LLM processing: " \o e :
                  e \in {"TypeError", "AttributeError", "IndexError", "ModelError"}}

\* json.loads gave a dict in which profession and sponsor are strings: the
\* records the disambiguation pass runs on.
PassRan(i) ==
  /\ llm_call[i] = "ok"
  /\ Parsed(i).ok
  /\ Parsed(i).val.t = "dict"
  /\ {k_profession, k_sponsor} \subseteq DOMAIN Parsed(i).val.d
  /\ Parsed(i).val.d[k_profession].t = "str"
  /\ Parsed(i).val.d[k_sponsor].t = "str"
ParsedProfession(i) == Parsed(i).val.d[k_profession].s
ParsedSponsor(i) == Parsed(i).val.d[k_sponsor].s

Corporate(s) ==
  Contains(upper(s), <<"S","E","R","V","I","C","E","S"," ","C","O">>) \/ Contains(upper(s), <<"D","A","T","A"," ","M","A","N","A","G","E","M","E","N","T">>)
JustPartner(s) == strip(upper(s)) \in {<<"P","A","R","T","N","E","R">>, <<"P","A","R","T","N","E","R"," ","(","F","E","M","A","L","E",")">>}

\* All eight keys, each a non-empty string.
CompleteRecord(v) ==
  /\ v.t = "dict"
  /\ SchemaKeys \subseteq DOMAIN v.d
  /\ \A k \in SchemaKeys : v.d[k].t = "str" /\ v.d[k].s # << >>

\* C1: once an invocation whose upload succeeded has ended (returned or
\* raised), no object is left under its destination key.
C1_CleanupAfterUpload ==
  \A i \in Inv : (Ended(i) /\ stored[i]) => bucket[Key(i)] = NoObject

\* C2: every value extract_text_from_image returns is a record with all
\* eight schema keys, each a non-empty string.
C2_ReturnedRecordComplete ==
  \A i \in Inv : pc[i] = "returned" => CompleteRecord(extracted_info[i])

\* C3: when the model's response is not parseable as JSON, process_and_query
\* raises nothing and returns exactly extract_using_regex of the raw response.
C3_FallbackOnRawResponse ==
  \A i \in Inv :
    (llm_call[i] = "ok" /\ ~Parsed(i).ok) =>
      /\ ~LLMError(i)
      /\ pc[i] \in {"delete_object", "returned", "raised"}
      /\ extracted_info[i] = extract_using_regex(result[i])

\* C3 witness: an unparseable response whose regex record differs from the
\* record the OCR text would give and from the all-"Not Found" record.
C3_Witness ==
  \E i \in Inv :
    /\ pc[i] = "returned" /\ llm_call[i] = "ok" /\ ~Parsed(i).ok
    /\ extracted_info[i] # extract_using_regex(extracted_text[i])
    /\ extracted_info[i] # PyDict(DefaultRecord)

\* C4: a parsed record with a corporate-looking profession comes back with
\* profession exactly the parsed sponsor and sponsor exactly the parsed
\* profession, original casing preserved.
C4_SwapPreservesCasing ==
  \A i \in Inv :
    (pc[i] = "returned" /\ PassRan(i) /\ Corporate(ParsedProfession(i))) =>
      /\ extracted_info[i].d[k_profession] = PyStr(ParsedSponsor(i))
      /\ extracted_info[i].d[k_sponsor] = PyStr(ParsedProfession(i))

\* C5 (as claimed): after the pass has run, the returned profession is never
\* corporate-looking, for all parsed profession/sponsor pairs.
C5_ProfessionNeverCorporate ==
  \A i \in Inv :
    (pc[i] = "returned" /\ PassRan(i)) =>
      ~Corporate(extracted_info[i].d[k_profession].s)

\* C5 (amended): after the pass has run, the returned profession is not
\* corporate-looking unless the parsed profession and the parsed sponsor were
\* both corporate-looking.
C5_ProfessionCorporateOnlyIfBoth ==
  \A i \in Inv :
    (pc[i] = "returned" /\ PassRan(i)
       /\ ~(Corporate(ParsedProfession(i)) /\ Corporate(ParsedSponsor(i)))) =>
      ~Corporate(extracted_info[i].d[k_profession].s)

\* C5 witness: a corporate-looking profession with another sponsor was
\* returned swapped.
C5_Witness ==
  \E i \in Inv :
    /\ pc[i] = "returned" /\ PassRan(i)
    /\ Corporate(ParsedProfession(i)) /\ ~Corporate(ParsedSponsor(i))
    /\ ~JustPartner(ParsedSponsor(i))
    /\ Corporate(extracted_info[i].d[k_sponsor].s)

\* The response matches the field schema: an object with the eight keys
\* whose profession and sponsor are strings.
MatchesSchema(v) ==
  /\ v.t = "dict"
  /\ SchemaKeys \subseteq DOMAIN v.d
  /\ v.d[k_profession].t = "str"
  /\ v.d[k_sponsor].t = "str"

\* C6: a response that is valid JSON but does not match the schema is
\* recovered through extract_using_regex and raises nothing.
C6_SchemaMismatchRecovered ==
  \A i \in Inv :
    (llm_call[i] = "ok" /\ pc[i] # "process_and_query"
       /\ Parsed(i).ok /\ ~MatchesSchema(Parsed(i).val)) =>
      (regex_used[i] /\ ~LLMError(i))

\* C7: a failed model call ends the invocation in a surfaced processing
\* failure without extract_using_regex; extract_using_regex runs only after a
\* response was received and failed JSON parsing.
C7_ModelFailureNotDegraded ==
  \A i \in Inv :
    /\ llm_call[i] = "failed" =>
         /\ pc[i] = "raised"
         /\ error[i] = "Error processing Emirates ID: Error in LLM processing: ModelError"
         /\ ~regex_used[i]
    /\ regex_used[i] => (llm_call[i] = "ok" /\ ~Parsed(i).ok)

\* C7 witness: the model call failed on a text the regex rules would have
\* filled fields from.
C7_Witness ==
  \E i \in Inv :
    /\ llm_call[i] = "failed" /\ pc[i] = "raised"
    /\ extract_using_regex(extracted_text[i]) # PyDict(DefaultRecord)

\* Whether the rule of a field finds anything in the text.
RuleMatches(key, text) ==
  CASE key = k_place_of_issue ->
         \E p \in 1..Len(text), c \in 1..Len(Cities) : StartsAtIgnoreCase(text, p, Cities[c])
    [] key = k_uid_no -> \E p \in 1..Len(text), n \in {8, 9} : UidAt(text, p, n)
    [] key = k_passport_no -> \E p \in 1..Len(text) : PassportAt(text, p)
    [] key \in {k_issue_date, k_expiry_date} ->
         Cardinality({p \in 1..Len(text) : DateAt(text, p)}) >= 2
    [] key = k_name -> \E p \in 1..Len(text) : NameAt(text, p)
    [] key = k_profession -> Contains(text, <<"P","A","R","T","N","E","R">>) \/ Contains(text, <<"P","a","r","t","n","e","r">>)
    [] key = k_sponsor ->
         \E p \in 1..Len(text) : StartsAt(text, p, <<"M","A","C","K","S","O","F","Y">>) /\ SponsorEnds(text, p) # {}

\* C8: every call of extract_using_regex returns a record with exactly the
\* eight schema keys, all strings, "Not Found" wherever no rule matched, and
\* a repeated call on the same text returns an equal record.
C8_RegexTotal ==
  \A n \in 1..Len(rx_out) :
    /\ rx_out[n].t = "dict"
    /\ DOMAIN rx_out[n].d = SchemaKeys
    /\ \A k \in SchemaKeys :
         /\ rx_out[n].d[k].t = "str"
         /\ rx_out[n].d[k].s # << >>
         /\ ~RuleMatches(k, rx_text) => rx_out[n].d[k].s = NotFound
    /\ rx_out[n] = rx_out[1]

\* C8 witness: two calls on the empty string, and two calls on a text in
\* which some rules match and others do not.
C8_Witness ==
  /\ Len(rx_out) >= 2
  /\ \/ rx_text = << >>
     \/ /\ RuleMatches(k_passport_no, rx_text)
        /\ ~RuleMatches(k_name, rx_text)
        /\ rx_out[2].d[k_passport_no].s # NotFound

\* C9: when both swap conditions hold, the returned profession and sponsor
\* are, case-insensitively, the parsed values exchanged once (not the original
\* arrangement).
C9_ExchangedOnce ==
  \A i \in Inv :
    (Processed(i) /\ PassRan(i)
       /\ Corporate(ParsedProfession(i)) /\ JustPartner(ParsedSponsor(i))) =>
      /\ upper(extracted_info[i].d[k_profession].s) = upper(ParsedSponsor(i))
      /\ upper(extracted_info[i].d[k_sponsor].s) = upper(ParsedProfession(i))
      /\ upper(extracted_info[i].d[k_profession].s) # upper(ParsedProfession(i))

\* C9 witness: both conditions held and the record was returned.
C9_Witness ==
  \E i \in Inv :
    /\ pc[i] = "returned" /\ PassRan(i)
    /\ Corporate(ParsedProfession(i)) /\ JustPartner(ParsedSponsor(i))

\* What invocation i returns when it runs alone: process_and_query on the
\* text of its own image, with the model's answer for that text.
AloneValue(i) ==
  parse_result(llm[image[i]].text, extracted_text_of(Blocks(image[i]))).value

\* C10: with distinct destination keys, no invocation's object is written,
\* read or deleted by the other, and each returns what it returns alone.
C10_NoInterference ==
  basename(image_path[1]) # basename(image_path[2]) =>
    \A i \in Inv :
      /\ pc[i] = "upload_to_s3" => bucket[Key(i)] = NoObject
      /\ pc[i] \in {"detect_document_text", "process_and_query", "delete_object"} =>
           bucket[Key(i)] = image[i]
      /\ pc[i] = "returned" => bucket[Key(i)] = NoObject
      /\ pc[i] \in {"process_and_query", "delete_object", "returned"} =>
           extracted_text[i] = extracted_text_of(Blocks(image[i]))
      /\ error[i] # "Error processing Emirates ID: InvalidS3ObjectException"
      /\ pc[i] = "returned" =>
           (llm[image[i]].asked /\ extracted_info[i] = AloneValue(i))

\* C10 witness: two invocations on different images under distinct keys are
\* in flight together, both objects stored and both records computed.
C10_Witness ==
  /\ basename(image_path[1]) # basename(image_path[2])
  /\ image[1] # image[2]
  /\ pc[1] = "delete_object" /\ pc[2] = "delete_object"
  /\ extracted_info[1] # extracted_info[2]
====
